---- MODULE Spec2Model ----
(***************************************************************************)
(* otel-goexpert: service A (POST /cep) validates a postal code and        *)
(* forwards it to service B (POST /weather), which asks ViaCEP for the     *)
(* locality and WeatherAPI for the temperature.  Both services create      *)
(* OpenTelemetry spans.  The model follows src/servicea/main.go and        *)
(* src/serviceb/main.go; a handler is cut into actions at its blocking     *)
(* outbound calls only.                                                    *)
(***************************************************************************)
EXTENDS Integers, Sequences, FiniteSets, TLC

\* Number of client requests the model lets arrive.
MaxReqs == 1

Reqs == 1..MaxReqs

\* Requests in flight together in the specification of concurrent requests.
MaxInFlight == 2

ConcReqs == 1..MaxInFlight

\* Longest string handed to the validators on their own.
MaxStrLen == 9
Svcs == {"A", "B"}

\* ------------------------------------------------------------------ inputs

Digits == {"0", "1", "2", "3", "4", "5", "6", "7", "8", "9"}

CepKnown    == <<"0", "1", "0", "0", "1", "0", "0", "0">>
CepShort    == <<"1", "2", "3">>
CepLetters  == <<"a", "b", "c", "d", "e", "f", "g", "h">>
CepLong     == <<"0", "1", "0", "0", "1", "0", "0", "0", "0">>
CepNewline  == <<"0", "1", "0", "0", "1", "0", "0", "0", "\n">>
CepEmpty    == <<>>

Ceps == {CepKnown, CepShort, CepLetters, CepLong, CepNewline, CepEmpty}

\* A request body as the decoder sees it: "garbage" is not JSON, "wrongtype"
\* is {"cep": 123}, "object" is a JSON object whose cep member is a string
\* (a missing member leaves the Go zero value, the empty string).
Garbage   == [kind |-> "garbage", cep |-> <<>>]
WrongType == [kind |-> "wrongtype", cep |-> <<>>]
CepBody(c) == [kind |-> "object", cep |-> c]

Bodies == {Garbage, WrongType} \cup {CepBody(c) : c \in Ceps}

\* Localities ViaCEP may return, as character sequences.
CityRio == <<"R", "i", "o">>
CitySP  == <<"S", "P", " ", "C">>
Cities  == {CityRio, CitySP}

\* ------------------------------------------------------------------ float64

\* A natural number of any size: its binary digits, least significant first,
\* the last one 1 (zero is the empty sequence).
RECURSIVE FromNat(_)
FromNat(n) == IF n = 0 THEN <<>> ELSE <<n % 2>> \o FromNat(n \div 2)

RECURSIVE Trim(_)
Trim(b) == IF b = <<>> \/ b[Len(b)] = 1 THEN b ELSE Trim(SubSeq(b, 1, Len(b) - 1))

BitAt(b, i) == IF i \in 1..Len(b) THEN b[i] ELSE 0

\* b * 2^k.
ShiftLeft(b, k) == IF b = <<>> \/ k = 0 THEN b ELSE [i \in 1..k |-> 0] \o b

\* The arithmetic is done on digits of LimbBits binary digits each (base Base),
\* small enough for the product of two of them to stay below 2^31.
LimbBits == 14

Base == 16384

RECURSIVE Pow2(_)
Pow2(k) == IF k = 0 THEN 1 ELSE 2 * Pow2(k - 1)

\* The value of binary digits from + j .. from + LimbBits of b.
RECURSIVE LimbFrom(_, _, _)
LimbFrom(b, from, j) ==
    IF j > LimbBits THEN 0 ELSE BitAt(b, from + j) + 2 * LimbFrom(b, from, j + 1)

ToLimbs(b) ==
    [i \in 1..((Len(b) + LimbBits - 1) \div LimbBits) |->
        LimbFrom(b, (i - 1) * LimbBits, 1)]

FromLimbs(l) ==
    Trim([j \in 1..(Len(l) * LimbBits) |->
            (l[((j - 1) \div LimbBits) + 1] \div Pow2((j - 1) % LimbBits)) % 2])

LimbAt(l, i) == IF i \in 1..Len(l) THEN l[i] ELSE 0

\* Digits i and up of a + b, c being the carry into digit i.
RECURSIVE AddCarry(_, _, _, _)
AddCarry(a, b, i, c) ==
    IF i > Len(a) /\ i > Len(b)
    THEN IF c = 0 THEN <<>> ELSE <<c>>
    ELSE LET t == LimbAt(a, i) + LimbAt(b, i) + c
         IN <<t % Base>> \o AddCarry(a, b, i + 1, t \div Base)

BigAdd(a, b) == FromLimbs(AddCarry(ToLimbs(a), ToLimbs(b), 1, 0))

\* Digits i and up of a * d for one digit d, c being the carry into digit i.
RECURSIVE MulDigit(_, _, _, _)
MulDigit(a, d, i, c) ==
    IF i > Len(a)
    THEN IF c = 0 THEN <<>> ELSE <<c>>
    ELSE LET t == a[i] * d + c
         IN <<t % Base>> \o MulDigit(a, d, i + 1, t \div Base)

\* a * (digits i and up of b), in units of Base^(i-1).
RECURSIVE MulFrom(_, _, _)
MulFrom(a, b, i) ==
    IF i > Len(b) THEN <<>>
    ELSE AddCarry(MulDigit(a, b[i], 1, 0), <<0>> \o MulFrom(a, b, i + 1), 1, 0)

BigMul(a, b) == FromLimbs(MulFrom(ToLimbs(a), ToLimbs(b), 1))

\* Long division of digits i..1 of b by a small d, r being the remainder of the
\* digits above i.
RECURSIVE DivFrom(_, _, _, _)
DivFrom(b, d, i, r) ==
    IF i = 0 THEN [q |-> <<>>, r |-> r]
    ELSE LET t  == Base * r + b[i]
             lo == DivFrom(b, d, i - 1, t % d)
         IN [q |-> Append(lo.q, t \div d), r |-> lo.r]

BigDiv(b, d) ==
    LET l == ToLimbs(b)
        x == DivFrom(l, d, Len(l), 0)
    IN [q |-> FromLimbs(x.q), r |-> x.r]

\* Bits of a float64 significand.
Precision == 53

\* A float64 that is zero or positive, finite and normal: m * 2^e with m of
\* exactly Precision binary digits, kept as digits of base Base, or zero.  (The
\* readings and the constants of the conversions are of this kind.)
F64Zero == [m |-> <<>>, e |-> 0]

F64(b, e) == [m |-> ToLimbs(b), e |-> e]

\* The binary digits of the significand.
Bits(x) == FromLimbs(x.m)

\* b * 2^e rounded to the nearest float64, ties to even (IEEE 754 default).
Round(b, e) ==
    LET n == Len(b) IN
    IF n = 0 THEN F64Zero
    ELSE IF n <= Precision
    THEN F64(ShiftLeft(b, Precision - n), e - (Precision - n))
    ELSE LET d      == n - Precision
             kept   == SubSeq(b, d + 1, n)
             sticky == \E i \in 1..(d - 1) : b[i] = 1
             up     == b[d] = 1 /\ (sticky \/ kept[1] = 1)
             m1     == IF up THEN BigAdd(kept, <<1>>) ELSE kept
         IN IF Len(m1) > Precision
            THEN F64(SubSeq(m1, 2, Len(m1)), e + d + 1)
            ELSE F64(m1, e + d)

\* The digits and the exponent of a * 2^ea + b * 2^eb, not rounded.
Sum(a, ea, b, eb) ==
    LET e == IF ea < eb THEN ea ELSE eb
    IN [m |-> BigAdd(ShiftLeft(a, ea - e), ShiftLeft(b, eb - e)), e |-> e]

\* (b / d) * 2^e rounded once, for b > 0 and a small d: the quotient is taken
\* to 64 more digits and a last digit records whether a remainder is left.
RoundRatio(b, d, e) ==
    LET x == BigDiv(ShiftLeft(b, 64), d)
    IN Round(<<IF x.r = 0 THEN 0 ELSE 1>> \o x.q, e - 65)

\* The float64 a decimal n/d denotes, in a JSON number (strconv.ParseFloat) or
\* in a constant of the program: the nearest one.
F64Parse(n, d) == IF n = 0 THEN F64Zero ELSE RoundRatio(FromNat(n), d, 0)

F64Mul(x, y) == Round(BigMul(Bits(x), Bits(y)), x.e + y.e)

F64Add(x, y) == LET s == Sum(Bits(x), x.e, Bits(y), y.e) IN Round(s.m, s.e)

\* x*y + z with the product not rounded (a fused multiply-add).
F64FMA(x, y, z) ==
    LET s == Sum(BigMul(Bits(x), Bits(y)), x.e + y.e, Bits(z), z.e) IN Round(s.m, s.e)

\* Temperatures WeatherAPI may return: 28.5.
Temps == {F64Parse(285, 10)}

\* Statuses an endpoint configured as SERVICE_B_URL may answer with.
Statuses == {200, 201, 400, 404, 422, 500, 503}

StatusOK                  == 200
StatusNotFound            == 404
StatusUnprocessableEntity == 422
StatusInternalServerError == 500

MsgInvalid  == "invalid zipcode"
MsgNotFound == "can not find zipcode"
MsgInternal == "internal server error"

SpanNames == {"handle_cep_request", "call_service_b", "handle_weather_request",
              "get_cep_info", "get_weather_info"}

SpanSvc(n) == IF n \in {"handle_cep_request", "call_service_b"} THEN "A" ELSE "B"

Targets == {"serviceb", "viacep", "weatherapi"}

TargetSvc(t) == IF t = "serviceb" THEN "A" ELSE "B"

VARIABLES
    mainPc,       \* [Svcs -> "start" | "serving" | "exited"]: position of main()
    tracerSet,    \* [Svcs -> BOOLEAN]: initTracer returned a provider
    tpShutdown,   \* [Svcs -> Nat]: calls of tp.Shutdown
    serviceBURL,  \* what SERVICE_B_URL designates
    client,       \* [Reqs -> request sent by the client, or NoReq]
    aPc,          \* [Reqs -> position of handleCepRequest]
    bPc,          \* [Reqs -> position of handleWeatherRequest]
    bReq,         \* [Reqs -> HTTP request delivered to POST /weather, or NoReq]
    wire,         \* [Reqs -> response on the wire back to callServiceB]
    aResp,        \* [Reqs -> Seq of responses written by handleCepRequest]
    bResp,        \* [Reqs -> Seq of responses written by handleWeatherRequest]
    spans,        \* [Reqs -> [SpanNames -> span record]]
    calls,        \* [Reqs -> [Targets -> outbound call record]]
    cancelled,    \* [Reqs -> [Svcs -> BOOLEAN]]: the inbound request's context is done
    locals,       \* [Reqs -> handler locals kept across a blocking call]
    log,          \* [Reqs -> [Svcs -> Seq of steps the service took for the request]]
    valid         \* a string and what isValidCep of each service returned for it

vars == <<mainPc, tracerSet, tpShutdown, serviceBURL, client, aPc, bPc, bReq, wire,
          aResp, bResp, spans, calls, cancelled, locals, log, valid>>

\* What no request handler and no step of main writes.
envVars  == <<serviceBURL, valid>>
mainVars == <<mainPc, tracerSet, tpShutdown>>
reqVars  == <<client, aPc, bPc, bReq, wire, aResp, bResp, spans, calls, cancelled,
              locals, log>>

NoReq   == [kind |-> "none"]
NoResp  == [status |-> 0]
NoTrace == <<>>

\* A context.Context: the span it carries (with its trace id) and the inbound
\* request whose cancellation it follows ("background" follows none).
Ctx(span, trace, owner) == [span |-> span, trace |-> trace, owner |-> owner]

NoSpan  == [started |-> 0, ended |-> 0, trace |-> NoTrace, parent |-> "none",
            events |-> <<>>, t0 |-> 0, t1 |-> 0]
NoCall  == [state |-> "none", ctx |-> Ctx("none", NoTrace, "background"),
            hit |-> FALSE]
NoLocals == [cep |-> <<>>, city |-> <<>>, tempC |-> F64Zero,
             ctx |-> Ctx("none", NoTrace, "background")]

\* One step of a handler, or the reply of an outbound call ("at" is then the
\* call's target and "step" how the call came back), as recorded in log: code is
\* a status or 0, arg a string (character sequence) or <<>>.
Ev(at, step, arg, code) == [at |-> at, step |-> step, arg |-> arg, code |-> code]

\* ------------------------------------------------------------ pure helpers

\* Variant: the pattern with any character in place of a digit, ^.{8}$.
isValidCepAnyEight(cep) == Len(cep) = 8 /\ \A i \in 1..Len(cep) : cep[i] # "\n"

\* Variant: the pattern without its closing anchor, ^\d{8}.
isValidCepUnanchored(cep) ==
    /\ Len(cep) >= 8
    /\ \A i \in 1..8 : cep[i] \in Digits

\* regexp ^\d{8}$ (RE2 syntax: \d is [0-9], $ without the m flag matches only at
\* the end of the text, so a trailing newline is not skipped).
isValidCep(cep) ==
    /\ Len(cep) = 8
    /\ \A i \in 1..Len(cep) : cep[i] \in Digits

\* Variant: service B's pattern accepting eight or more digits, ^\d{8,}$.
isValidCepBAtLeast(cep) ==
    /\ Len(cep) >= 8
    /\ \A i \in 1..Len(cep) : cep[i] \in Digits

\* isValidCep of service B: the same pattern, compiled in its own function.
isValidCepB(cep) ==
    /\ Len(cep) = 8
    /\ \A i \in 1..Len(cep) : cep[i] \in Digits

NoValid == [s |-> <<>>, done |-> FALSE, a |-> FALSE, b |-> FALSE]

\* json.NewDecoder(r.Body).Decode(&req) into CepRequest{Cep string}.
Decode(body) ==
    IF body.kind = "object" THEN [ok |-> TRUE, cep |-> body.cep]
    ELSE [ok |-> FALSE, cep |-> <<>>]

\* json.Marshal(map[string]string{"cep": cep}).
Marshal(cep) == CepBody(cep)

\* url.QueryEscape on the characters the localities use: a space becomes "+",
\* letters are kept.
QueryEscape(city) == [i \in 1..Len(city) |-> IF city[i] = " " THEN "+" ELSE city[i]]

\* celsius*1.8 + 32 on float64: the constants are converted to float64, the
\* product is rounded and then the sum, unless the compiler fuses the two
\* operations (the language allows it; arm64, ppc64, s390x do), and then only
\* the sum is rounded.
celsiusToFahrenheit(celsius, fused) ==
    IF fused THEN F64FMA(celsius, F64Parse(18, 10), F64Parse(32, 1))
    ELSE F64Add(F64Mul(celsius, F64Parse(18, 10)), F64Parse(32, 1))

\* celsius + 273 on float64.
celsiusToKelvin(celsius) == F64Add(celsius, F64Parse(273, 1))

\* tempF and tempK of handleWeatherRequest, by whether the build fuses.
Conversions(c, fused) == [f |-> celsiusToFahrenheit(c, fused), k |-> celsiusToKelvin(c)]

\* The conversions of the temperatures WeatherAPI may return, computed once.
Converted == [c \in Temps |-> [fused \in BOOLEAN |-> Conversions(c, fused)]]

\* The bytes json.NewEncoder(w).Encode writes: compact JSON and a newline.  A
\* float64 is written as the shortest decimal that parses back to it, so two
\* bodies carry the same number text exactly when they carry the same float64;
\* the bodies keep the float64.
ErrorBody(message) ==
    [form |-> "compact-nl", kind |-> "error", message |-> message, city |-> <<>>,
     temp_C |-> F64Zero, temp_F |-> F64Zero, temp_K |-> F64Zero]

ResultBody(city, c, f, k) ==
    [form |-> "compact-nl", kind |-> "result", message |-> "", city |-> city,
     temp_C |-> c, temp_F |-> f, temp_K |-> k]

Response(status, body) == [status |-> status, body |-> body]

\* Bodies an endpoint other than service B may send.
TextBody == [ErrorBody("bad gateway") EXCEPT !.form = "text", !.kind = "text"]

OtherBodies ==
    { [ResultBody(CityRio, F64Parse(285, 10), F64Parse(833, 10), F64Parse(3015, 10)) EXCEPT !.form = "pretty"], TextBody }

\* ------------------------------------------------------------------ tracing

\* The time on the clock of a request in one service: the starts and ends of
\* its spans there so far.
RECURSIVE Count(_, _)
Count(sp, names) ==
    IF names = {} THEN 0
    ELSE LET n == CHOOSE n \in names : TRUE
         IN sp[n].started + sp[n].ended + Count(sp, names \ {n})

Clock(sp, svc) == Count(sp, {n \in SpanNames : SpanSvc(n) = svc})

\* A new root span gets a fresh random trace id: one per (service, request).
NewTraceID(svc, r) == <<svc, r>>

\* tracer.Start(ctx, name): a child of the span in ctx when there is one, else a
\* root of a new trace.
StartSpan(sp, ctx, name, svc, r) ==
    [sp EXCEPT ![name] =
        [started |-> @.started + 1, ended |-> @.ended,
         trace |-> IF ctx.span = "none" THEN NewTraceID(svc, r) ELSE ctx.trace,
         parent |-> ctx.span, events |-> @.events, t0 |-> Clock(sp, svc) + 1, t1 |-> @.t1]]

\* The context tracer.Start returns.
CtxWithSpan(ctx, sp, name) == Ctx(name, sp[name].trace, ctx.owner)

\* Variant: the span.End() call is missing.
EndSpanMissing(sp, name) == sp

\* Variant: the callees hand their spans to the handler, whose deferred call
\* ends them together with its own when the handler returns.
EndSpanLate(sp, name) ==
    IF name \notin {"handle_cep_request", "handle_weather_request"} THEN sp
    ELSE LET open == {n \in SpanNames : /\ SpanSvc(n) = SpanSvc(name) /\ n # name
                                         /\ sp[n].started > sp[n].ended}
             now  == Clock(sp, SpanSvc(name))
         IN [n \in SpanNames |->
               IF n \in open THEN [sp[n] EXCEPT !.ended = @ + 1, !.t1 = now + 1]
               ELSE IF n = name
               THEN [sp[n] EXCEPT !.ended = @ + 1, !.t1 = now + 1 + Cardinality(open)]
               ELSE sp[n]]

\* span.End(), run by the deferred call when the function returns.
EndSpan(sp, name) == [sp EXCEPT ![name].ended = @ + 1, ![name].t1 = Clock(sp, SpanSvc(name)) + 1]

\* span.AddEvent: recorded only while the span is recording (not yet ended).
\* The event is kept with its status-code attribute and with the number of
\* responses the handler had written when it was added.
AddEvent(sp, name, ev, code, written) ==
    IF name \in SpanNames /\ sp[name].started > 0 /\ sp[name].ended = 0
    THEN [sp EXCEPT ![name].events =
             Append(@, [name |-> ev, code |-> code, written |-> written])]
    ELSE sp

\* The context of an inbound request as net/http hands it to the handler: the
\* router installs only the Logger and Recoverer middlewares, nothing reads the
\* request headers, so the context carries no span.
RequestContext(svc, req) == Ctx("none", NoTrace, svc)

\* otelhttp.NewTransport: writes the span context of the request's context
\* into the outbound headers (propagation.TraceContext).
Inject(ctx) == [traceparent |-> [trace |-> ctx.trace, span |-> ctx.span]]

NoHeaders == [traceparent |-> [trace |-> NoTrace, span |-> "none"]]

\* Variant: http.NewRequest, whose request carries context.Background().
NewRequest(ctx) == Ctx("none", NoTrace, "background")

\* http.NewRequestWithContext(ctx, ...): the call follows ctx.
NewRequestWithContext(ctx) == ctx

\* ctx.Done() is closed: the inbound request it derives from was cancelled.
CtxDone(ctx, r) == ctx.owner \in Svcs /\ cancelled[r][ctx.owner]

\* Variant: the answer is written with http.Error, a plain-text body.
respondWithErrorPlain(resp, sp, statusCode, message, ctx) ==
    [sp   |-> AddEvent(sp, ctx.span, "error_response", statusCode, Len(resp)),
     resp |-> Append(resp, Response(statusCode,
                  [ErrorBody(message) EXCEPT !.form = "text", !.kind = "text"]))]

\* Variant: status and body are written first, the event is added after.
respondWithErrorLate(resp, sp, statusCode, message, ctx) ==
    LET resp1 == Append(resp, Response(statusCode, ErrorBody(message)))
    IN [sp   |-> AddEvent(sp, ctx.span, "error_response", statusCode, Len(resp1)),
        resp |-> resp1]

\* respondWithError: the event goes to the span of ctx, then status and body
\* are written.
respondWithError(resp, sp, statusCode, message, ctx) ==
    [sp   |-> AddEvent(sp, ctx.span, "error_response", statusCode, Len(resp)),
     resp |-> Append(resp, Response(statusCode, ErrorBody(message)))]

\* ---------------------------------------------------------------- lifecycle

\* Deferred functions run when main returns or panics; os.Exit (log.Fatal,
\* log.Fatalf) ends the process without running them.
DefersRun(how) == how = "return"

\* Nothing started, nothing received, for the requests R.
Idle(R) ==
    /\ mainPc = [s \in Svcs |-> "start"]
    /\ tracerSet = [s \in Svcs |-> FALSE]
    /\ tpShutdown = [s \in Svcs |-> 0]
    /\ serviceBURL \in {"serviceb", "other", "invalid"}
    /\ client = [r \in R |-> NoReq]
    /\ aPc = [r \in R |-> "idle"]
    /\ bPc = [r \in R |-> "idle"]
    /\ bReq = [r \in R |-> NoReq]
    /\ wire = [r \in R |-> NoResp]
    /\ aResp = [r \in R |-> <<>>]
    /\ bResp = [r \in R |-> <<>>]
    /\ spans = [r \in R |-> [n \in SpanNames |-> NoSpan]]
    /\ calls = [r \in R |-> [t \in Targets |-> NoCall]]
    /\ cancelled = [r \in R |-> [s \in Svcs |-> FALSE]]
    /\ locals = [r \in R |-> [s \in Svcs |-> NoLocals]]
    /\ log = [r \in R |-> [s \in Svcs |-> <<>>]]

Init ==
    /\ Idle(Reqs)
    /\ valid = NoValid

\* main() up to ListenAndServe: initTracer fails (log.Fatalf) or returns the
\* provider, sets the global tracer and registers the deferred Shutdown.
MainStart(svc, ok) ==
    /\ mainPc[svc] = "start"
    /\ IF ok
       THEN /\ mainPc' = [mainPc EXCEPT ![svc] = "serving"]
            /\ tracerSet' = [tracerSet EXCEPT ![svc] = TRUE]
       ELSE /\ mainPc' = [mainPc EXCEPT ![svc] = "exited"]
            /\ UNCHANGED tracerSet
    /\ UNCHANGED <<tpShutdown, envVars, reqVars>>

\* http.ListenAndServe returns (it always returns a non-nil error) and
\* log.Fatal prints it and calls os.Exit(1).
MainExit(svc) ==
    /\ mainPc[svc] = "serving"
    /\ mainPc' = [mainPc EXCEPT ![svc] = "exited"]
    /\ tpShutdown' = [tpShutdown EXCEPT ![svc] =
                        IF DefersRun("os.Exit") THEN @ + 1 ELSE @]
    /\ UNCHANGED <<tracerSet, envVars, reqVars>>

\* A client posts a body to /cep (entry "A") or to /weather (entry "B").
ClientSend(r, entry, body) ==
    /\ client[r] = NoReq
    \* Requests are numbered in the order they arrive.
    /\ \A q \in DOMAIN client : q < r => client[q] # NoReq
    /\ mainPc[entry] = "serving"
    /\ client' = [client EXCEPT ![r] = [kind |-> "http", entry |-> entry, body |-> body]]
    /\ bReq' = IF entry = "B"
               THEN [bReq EXCEPT ![r] = [kind |-> "http", body |-> body,
                                          headers |-> NoHeaders, from |-> "client"]]
               ELSE bReq
    /\ UNCHANGED <<mainVars, envVars, aPc, bPc, wire, aResp, bResp, spans, calls,
                   cancelled, locals, log>>

NoBody == [ErrorBody("") EXCEPT !.form = "none", !.kind = "none"]

\* ---------------------------------------------------------------- service A

\* Variant: callServiceB without its 422 branch.
callServiceBReturnNo422(outcome, resp) ==
    IF outcome = "doErr" THEN [err |-> "wrapped", body |-> NoBody]
    ELSE IF outcome = "readErr" THEN [err |-> "wrapped", body |-> NoBody]
    ELSE IF resp.status = StatusNotFound THEN [err |-> "ErrCepNotFound", body |-> NoBody]
    ELSE IF resp.status # StatusOK THEN [err |-> "wrapped", body |-> NoBody]
    ELSE [err |-> "nil", body |-> resp.body]

\* Variant: any 2xx status of service B counts as success.
callServiceBReturn2xx(outcome, resp) ==
    IF outcome = "doErr" THEN [err |-> "wrapped", body |-> NoBody]
    ELSE IF outcome = "readErr" THEN [err |-> "wrapped", body |-> NoBody]
    ELSE IF resp.status = StatusNotFound THEN [err |-> "ErrCepNotFound", body |-> NoBody]
    ELSE IF resp.status = StatusUnprocessableEntity
         THEN [err |-> "ErrInvalidCep", body |-> NoBody]
    ELSE IF resp.status \notin 200..299 THEN [err |-> "wrapped", body |-> NoBody]
    ELSE [err |-> "nil", body |-> resp.body]

\* callServiceB from client.Do on: the transport fails, or the body cannot be
\* read, or the status is mapped to an error, or the body is returned.
callServiceBReturn(outcome, resp) ==
    IF outcome = "doErr" THEN [err |-> "wrapped", body |-> NoBody]
    ELSE IF outcome = "readErr" THEN [err |-> "wrapped", body |-> NoBody]
    ELSE IF resp.status = StatusNotFound THEN [err |-> "ErrCepNotFound", body |-> NoBody]
    ELSE IF resp.status = StatusUnprocessableEntity
         THEN [err |-> "ErrInvalidCep", body |-> NoBody]
    ELSE IF resp.status # StatusOK THEN [err |-> "wrapped", body |-> NoBody]
    ELSE [err |-> "nil", body |-> resp.body]

\* Variant: the success path decodes the body received and encodes it again.
handleCepRespondReencode(resp, sp, res, ctx) ==
    IF res.err = "ErrCepNotFound"
    THEN respondWithError(resp, sp, StatusNotFound, MsgNotFound, ctx)
    ELSE IF res.err = "ErrInvalidCep"
    THEN respondWithError(resp, sp, StatusUnprocessableEntity, MsgInvalid, ctx)
    ELSE IF res.err # "nil"
    THEN respondWithError(resp, sp, StatusInternalServerError, MsgInternal, ctx)
    ELSE [sp |-> sp,
          resp |-> Append(resp, Response(StatusOK,
                                         [res.body EXCEPT !.form = "compact-nl"]))]

\* Variant: the return after the 404 is missing, the generic 500 follows it.
handleCepRespondNoReturn(resp, sp, res, ctx) ==
    IF res.err = "ErrCepNotFound"
    THEN LET first == respondWithError(resp, sp, StatusNotFound, MsgNotFound, ctx)
         IN respondWithError(first.resp, first.sp, StatusInternalServerError,
                             MsgInternal, ctx)
    ELSE IF res.err = "ErrInvalidCep"
    THEN respondWithError(resp, sp, StatusUnprocessableEntity, MsgInvalid, ctx)
    ELSE IF res.err # "nil"
    THEN respondWithError(resp, sp, StatusInternalServerError, MsgInternal, ctx)
    ELSE [sp |-> sp, resp |-> Append(resp, Response(StatusOK, res.body))]

\* handleCepRequest after callServiceB returned res: errors.Is picks the status,
\* a nil error writes 200 and the bytes received.
handleCepRespond(resp, sp, res, ctx) ==
    IF res.err = "ErrCepNotFound"
    THEN respondWithError(resp, sp, StatusNotFound, MsgNotFound, ctx)
    ELSE IF res.err = "ErrInvalidCep"
    THEN respondWithError(resp, sp, StatusUnprocessableEntity, MsgInvalid, ctx)
    ELSE IF res.err # "nil"
    THEN respondWithError(resp, sp, StatusInternalServerError, MsgInternal, ctx)
    ELSE [sp |-> sp, resp |-> Append(resp, Response(StatusOK, res.body))]

\* handleCepRequest returns: the deferred span.End() runs.
AFinish(r, out, steps) ==
    /\ aResp' = [aResp EXCEPT ![r] = out.resp]
    /\ spans' = [spans EXCEPT ![r] = EndSpan(out.sp, "handle_cep_request")]
    /\ aPc' = [aPc EXCEPT ![r] = "done"]
    /\ log' = [log EXCEPT ![r]["A"] = @ \o steps \o
                 <<Ev("A", "respond", <<>>, out.resp[Len(out.resp)].status)>>]

\* handleCepRequest from its start to its first blocking point: decode,
\* validate, then callServiceB up to client.Do.
AHandle(r) ==
    /\ mainPc["A"] = "serving"
    /\ client[r] # NoReq /\ client[r].entry = "A"
    /\ aPc[r] = "idle"
    /\ LET ctx0 == RequestContext("A", client[r])
           sp1  == StartSpan(spans[r], ctx0, "handle_cep_request", "A", r)
           ctx  == CtxWithSpan(ctx0, sp1, "handle_cep_request")
           d    == Decode(client[r].body)
           sp2  == StartSpan(sp1, ctx, "call_service_b", "A", r)
           ctx2 == CtxWithSpan(ctx, sp2, "call_service_b")
           rctx == NewRequestWithContext(ctx2)
       IN IF ~d.ok
          THEN /\ AFinish(r, respondWithError(aResp[r], sp1, StatusUnprocessableEntity,
                                               MsgInvalid, ctx),
                          <<Ev("A", "decode.fail", <<>>, 0)>>)
               /\ UNCHANGED <<bReq, calls, locals>>
          ELSE IF ~isValidCep(d.cep)
          THEN /\ AFinish(r, respondWithError(aResp[r], sp1, StatusUnprocessableEntity,
                                               MsgInvalid, ctx),
                          <<Ev("A", "decode.ok", d.cep, 0),
                            Ev("A", "validate.fail", d.cep, 0)>>)
               /\ UNCHANGED <<bReq, calls, locals>>
          ELSE IF serviceBURL = "invalid"
          THEN \* http.NewRequestWithContext rejects the URL: callServiceB returns
               \* the wrapped error and its deferred span.End() runs.
               /\ AFinish(r, handleCepRespond(aResp[r], EndSpan(sp2, "call_service_b"),
                                               [err |-> "wrapped", body |-> NoBody], ctx),
                          <<Ev("A", "decode.ok", d.cep, 0),
                            Ev("A", "validate.ok", d.cep, 0),
                            Ev("A", "callServiceB", d.cep, 0),
                            Ev("A", "callServiceB.fail", <<>>, 0)>>)
               /\ UNCHANGED <<bReq, calls, locals>>
          ELSE /\ spans' = [spans EXCEPT ![r] = sp2]
               /\ calls' = [calls EXCEPT ![r]["serviceb"] =
                              [state |-> "inflight", ctx |-> rctx, hit |-> FALSE]]
               /\ bReq' = IF serviceBURL = "serviceb"
                          THEN [bReq EXCEPT ![r] =
                                  [kind |-> "http", body |-> Marshal(d.cep),
                                   headers |-> Inject(rctx), from |-> "A"]]
                          ELSE bReq
               /\ locals' = [locals EXCEPT ![r]["A"] =
                               [NoLocals EXCEPT !.cep = d.cep, !.ctx = ctx]]
               /\ aPc' = [aPc EXCEPT ![r] = "calling"]
               /\ log' = [log EXCEPT ![r]["A"] = @ \o
                            <<Ev("A", "decode.ok", d.cep, 0),
                              Ev("A", "validate.ok", d.cep, 0),
                              Ev("A", "callServiceB", d.cep, 0)>>]
               /\ UNCHANGED aResp
    /\ UNCHANGED <<mainVars, envVars, client, bPc, wire, bResp, cancelled>>

\* An endpoint that is not service B answers the forwarded call.
OtherRespond(r, status, body) ==
    /\ serviceBURL = "other"
    /\ calls[r]["serviceb"].state = "inflight"
    /\ wire[r] = NoResp
    \* callServiceB drops the body of every status but 200: one body stands for all.
    /\ status # StatusOK => body = TextBody
    /\ wire' = [wire EXCEPT ![r] = Response(status, body)]
    /\ UNCHANGED <<mainVars, envVars, client, aPc, bPc, bReq, aResp, bResp, spans,
                   calls, cancelled, locals, log>>

\* client.Do and io.ReadAll in callServiceB come back, callServiceB returns and
\* handleCepRequest answers.  A response is received whole only while the
\* call's context is not done.
ACallReturn(r, outcome) ==
    /\ mainPc["A"] = "serving"
    /\ aPc[r] = "calling"
    /\ outcome \in {"doErr", "readErr", "ok"}
    /\ outcome # "doErr" => wire[r] # NoResp
    /\ outcome = "ok" => ~CtxDone(calls[r]["serviceb"].ctx, r)
    /\ LET res == callServiceBReturn(outcome, wire[r])
           sp1 == EndSpan(spans[r], "call_service_b")
           got == IF outcome = "doErr" THEN 0 ELSE wire[r].status
       IN /\ AFinish(r, handleCepRespond(aResp[r], sp1, res, locals[r]["A"].ctx),
                     <<Ev("serviceb", outcome, <<>>, got),
                       Ev("A", IF res.err = "nil" THEN "callServiceB.ok"
                               ELSE "callServiceB.fail", <<>>, got)>>)
          /\ calls' = [calls EXCEPT ![r]["serviceb"].state =
                         IF outcome = "ok" THEN "ok" ELSE "err"]
    /\ UNCHANGED <<mainVars, envVars, client, bPc, bReq, wire, bResp, cancelled,
                   locals>>

\* ---------------------------------------------------------------- service B

\* Variant: getCepInfo without the check of the erro flag.
getCepInfoReturnNoErro(outcome, city) ==
    IF outcome \in {"doErr", "status", "readErr", "badJson"}
    THEN [err |-> "wrapped", city |-> <<>>]
    ELSE IF outcome = "erro" THEN [err |-> "nil", city |-> <<>>]
    ELSE [err |-> "nil", city |-> city]

\* Variant: getCepInfo ignoring the error of json.Unmarshal.
getCepInfoReturnIgnoreUnmarshal(outcome, city) ==
    IF outcome \in {"doErr", "status", "readErr"}
    THEN [err |-> "wrapped", city |-> <<>>]
    ELSE IF outcome = "erro" THEN [err |-> "ErrCepNotFound", city |-> <<>>]
    ELSE IF outcome = "badJson" THEN [err |-> "nil", city |-> <<>>]
    ELSE [err |-> "nil", city |-> city]

\* getCepInfo from client.Do on: transport failure, a status other than 200, a
\* body that cannot be read or is not the expected JSON, the erro flag, or the
\* locality.
getCepInfoReturn(outcome, city) ==
    IF outcome \in {"doErr", "status", "readErr", "badJson"}
    THEN [err |-> "wrapped", city |-> <<>>]
    ELSE IF outcome = "erro" THEN [err |-> "ErrCepNotFound", city |-> <<>>]
    ELSE [err |-> "nil", city |-> city]

\* Variant: getWeatherInfo without the check of the status.
getWeatherInfoReturnNoStatus(outcome, temp) ==
    IF outcome \in {"doErr", "decodeErr"}
    THEN [err |-> "wrapped", temp_c |-> F64Zero]
    ELSE IF outcome = "status" THEN [err |-> "nil", temp_c |-> F64Zero]
    ELSE [err |-> "nil", temp_c |-> temp]

\* getWeatherInfo from client.Do on: transport failure, a status other than
\* 200, a body that does not decode, or the decoded reading.
getWeatherInfoReturn(outcome, temp) ==
    IF outcome \in {"doErr", "status", "decodeErr"}
    THEN [err |-> "wrapped", temp_c |-> F64Zero]
    ELSE [err |-> "nil", temp_c |-> temp]

\* Variant: location kept in a package-level variable, which holds what the
\* latest request that got a locality stored.
locationShared(ls, r) ==
    ls[CHOOSE q \in DOMAIN ls :
         /\ ls[q]["B"].city # <<>>
         /\ \A p \in DOMAIN ls : ls[p]["B"].city # <<>> => p <= q]["B"].city

\* The local variable location of handleWeatherRequest: one per invocation.
location(ls, r) == ls[r]["B"].city

\* The WeatherResult handleWeatherRequest builds and encodes.
WeatherResult(city, tempC, fused) ==
    LET conv == IF tempC \in Temps THEN Converted[tempC][fused]
                ELSE Conversions(tempC, fused)
    IN ResultBody(city, tempC, conv.f, conv.k)

\* handleWeatherRequest returns: the deferred span.End() runs; the response
\* written goes back on the connection it came from.
BFinish(r, out, steps) ==
    /\ bResp' = [bResp EXCEPT ![r] = out.resp]
    /\ spans' = [spans EXCEPT ![r] = EndSpan(out.sp, "handle_weather_request")]
    /\ bPc' = [bPc EXCEPT ![r] = "done"]
    /\ wire' = IF bReq[r].from = "A"
               THEN [wire EXCEPT ![r] = out.resp[Len(out.resp)]]
               ELSE wire
    /\ log' = [log EXCEPT ![r]["B"] = @ \o steps \o
                 <<Ev("B", "respond", <<>>, out.resp[Len(out.resp)].status)>>]

\* handleWeatherRequest from its start to its first blocking point: decode,
\* validate, then getCepInfo up to client.Do.
BHandle(r) ==
    /\ mainPc["B"] = "serving"
    /\ bReq[r] # NoReq
    /\ bPc[r] = "idle"
    /\ LET ctx0 == RequestContext("B", bReq[r])
           sp1  == StartSpan(spans[r], ctx0, "handle_weather_request", "B", r)
           ctx  == CtxWithSpan(ctx0, sp1, "handle_weather_request")
           d    == Decode(bReq[r].body)
           sp2  == StartSpan(sp1, ctx, "get_cep_info", "B", r)
           ctx2 == CtxWithSpan(ctx, sp2, "get_cep_info")
       IN IF ~d.ok
          THEN /\ BFinish(r, respondWithError(bResp[r], sp1, StatusUnprocessableEntity,
                                               MsgInvalid, ctx),
                          <<Ev("B", "decode.fail", <<>>, 0)>>)
               /\ UNCHANGED <<calls, locals>>
          ELSE IF ~isValidCepB(d.cep)
          THEN /\ BFinish(r, respondWithError(bResp[r], sp1, StatusUnprocessableEntity,
                                               MsgInvalid, ctx),
                          <<Ev("B", "decode.ok", d.cep, 0),
                            Ev("B", "validate.fail", d.cep, 0)>>)
               /\ UNCHANGED <<calls, locals>>
          ELSE /\ spans' = [spans EXCEPT ![r] = sp2]
               /\ calls' = [calls EXCEPT ![r]["viacep"] =
                              [state |-> "inflight",
                               ctx |-> NewRequestWithContext(ctx2), hit |-> FALSE]]
               /\ locals' = [locals EXCEPT ![r]["B"] =
                               [NoLocals EXCEPT !.cep = d.cep, !.ctx = ctx]]
               /\ bPc' = [bPc EXCEPT ![r] = "cep"]
               /\ log' = [log EXCEPT ![r]["B"] = @ \o
                            <<Ev("B", "decode.ok", d.cep, 0),
                              Ev("B", "validate.ok", d.cep, 0),
                              Ev("B", "getCepInfo", d.cep, 0)>>]
               /\ UNCHANGED <<bResp, wire>>
    /\ UNCHANGED <<mainVars, envVars, client, aPc, bReq, aResp, cancelled>>

\* getCepInfo comes back.  On an error handleWeatherRequest answers 404 or 500;
\* otherwise it goes on into getWeatherInfo up to client.Do.
BCepReturn(r, outcome, city) ==
    /\ mainPc["B"] = "serving"
    /\ bPc[r] = "cep"
    /\ outcome \in {"doErr", "status", "readErr", "badJson", "erro", "ok"}
    /\ city \in Cities
    /\ outcome \notin {"doErr", "readErr"} => ~CtxDone(calls[r]["viacep"].ctx, r)
    /\ LET res  == getCepInfoReturn(outcome, city)
           ctx  == locals[r]["B"].ctx
           sp1  == EndSpan(spans[r], "get_cep_info")
           sp2  == StartSpan(sp1, ctx, "get_weather_info", "B", r)
           ctx2 == CtxWithSpan(ctx, sp2, "get_weather_info")
           reply == Ev("viacep", outcome, IF outcome = "ok" THEN city ELSE <<>>, 0)
           done == [calls[r] EXCEPT !["viacep"].state =
                      IF outcome \in {"doErr", "readErr"} THEN "err" ELSE "ok"]
       IN IF res.err = "ErrCepNotFound"
          THEN /\ BFinish(r, respondWithError(bResp[r], sp1, StatusNotFound,
                                               MsgNotFound, ctx),
                          <<reply, Ev("B", "getCepInfo.notfound", <<>>, 0)>>)
               /\ calls' = [calls EXCEPT ![r] = done]
               /\ UNCHANGED locals
          ELSE IF res.err # "nil"
          THEN /\ BFinish(r, respondWithError(bResp[r], sp1, StatusInternalServerError,
                                               MsgInternal, ctx),
                          <<reply, Ev("B", "getCepInfo.fail", <<>>, 0)>>)
               /\ calls' = [calls EXCEPT ![r] = done]
               /\ UNCHANGED locals
          ELSE /\ spans' = [spans EXCEPT ![r] = sp2]
               /\ calls' = [calls EXCEPT ![r] =
                              [done EXCEPT !["weatherapi"] =
                                 [state |-> "inflight",
                                  ctx |-> NewRequestWithContext(ctx2), hit |-> FALSE]]]
               /\ locals' = [locals EXCEPT ![r]["B"].city = res.city]
               /\ bPc' = [bPc EXCEPT ![r] = "weather"]
               /\ log' = [log EXCEPT ![r]["B"] = @ \o
                            <<reply, Ev("B", "getCepInfo.ok", res.city, 0),
                              Ev("B", "getWeatherInfo", res.city, 0),
                              Ev("B", "weatherapi.q", QueryEscape(res.city), 0)>>]
               /\ UNCHANGED <<bResp, wire>>
    /\ UNCHANGED <<mainVars, envVars, client, aPc, bReq, aResp, cancelled>>

\* getWeatherInfo comes back and handleWeatherRequest answers: 500 on an error,
\* else the converted temperatures with status 200.
BWeatherReturn(r, outcome, temp, fused) ==
    /\ mainPc["B"] = "serving"
    /\ bPc[r] = "weather"
    /\ outcome \in {"doErr", "status", "decodeErr", "ok"}
    /\ outcome \notin {"doErr", "decodeErr"} => ~CtxDone(calls[r]["weatherapi"].ctx, r)
    /\ LET res == getWeatherInfoReturn(outcome, temp)
           ctx == locals[r]["B"].ctx
           sp1 == EndSpan(spans[r], "get_weather_info")
       IN /\ IF res.err # "nil"
             THEN BFinish(r, respondWithError(bResp[r], sp1, StatusInternalServerError,
                                               MsgInternal, ctx),
                          <<Ev("weatherapi", outcome, <<>>, 0),
                            Ev("B", "getWeatherInfo.fail", <<>>, 0)>>)
             ELSE BFinish(r, [sp |-> sp1,
                              resp |-> Append(bResp[r],
                                  Response(StatusOK,
                                           WeatherResult(location(locals, r), res.temp_c,
                                                         fused)))],
                          <<Ev("weatherapi", outcome, <<>>, 0),
                            Ev("B", "getWeatherInfo.ok", <<>>, 0),
                            Ev("B", "convert", <<>>, 0)>>)
          /\ calls' = [calls EXCEPT ![r]["weatherapi"].state =
                         IF outcome \in {"doErr", "decodeErr"} THEN "err" ELSE "ok"]
          /\ locals' = [locals EXCEPT ![r]["B"].tempC = res.temp_c]
    /\ UNCHANGED <<mainVars, envVars, client, aPc, bReq, aResp, cancelled>>

\* The inbound request's context is cancelled (the client went away) while its
\* handler is blocked in an outbound call.
Cancel(r, svc) ==
    /\ mainPc[svc] = "serving"
    /\ ~cancelled[r][svc]
    /\ IF svc = "A" THEN aPc[r] = "calling" ELSE bPc[r] \in {"cep", "weather"}
    /\ cancelled' = [cancelled EXCEPT ![r][svc] = TRUE]
    /\ calls' = [calls EXCEPT ![r] =
                   [t \in Targets |->
                      IF TargetSvc(t) = svc /\ calls[r][t].state = "inflight"
                      THEN [calls[r][t] EXCEPT !.hit = TRUE]
                      ELSE calls[r][t]]]
    /\ UNCHANGED <<mainVars, envVars, client, aPc, bPc, bReq, wire, aResp, bResp,
                   spans, locals, log>>

Next ==
    \/ \E svc \in Svcs, ok \in BOOLEAN : MainStart(svc, ok)
    \/ \E svc \in Svcs : MainExit(svc)
    \/ \E r \in Reqs, entry \in Svcs, body \in Bodies : ClientSend(r, entry, body)
    \/ \E r \in Reqs : AHandle(r)
    \/ \E r \in Reqs, status \in Statuses, body \in OtherBodies :
          OtherRespond(r, status, body)
    \/ \E r \in Reqs, outcome \in {"doErr", "readErr", "ok"} : ACallReturn(r, outcome)
    \/ \E r \in Reqs : BHandle(r)
    \/ \E r \in Reqs, city \in Cities,
          outcome \in {"doErr", "status", "readErr", "badJson", "erro", "ok"} :
          BCepReturn(r, outcome, city)
    \/ \E r \in Reqs, temp \in Temps, fused \in BOOLEAN,
             outcome \in {"doErr", "status", "decodeErr", "ok"} :
          BWeatherReturn(r, outcome, temp, fused)
    \/ \E r \in Reqs, svc \in Svcs : Cancel(r, svc)

Spec == Init /\ [][Next]_vars

\* ------------------------------------------------------ concurrent requests

\* MaxInFlight requests against the two services wired to each other.
InitConcurrent ==
    /\ Idle(ConcReqs)
    /\ serviceBURL = "serviceb"
    /\ valid = NoValid

\* Both services come up and stay up; clients post a known or a short code to
\* either service; the calls to service B, ViaCEP and WeatherAPI fail or answer.
NextConcurrent ==
    \/ \E svc \in Svcs : MainStart(svc, TRUE)
    \/ \E r \in ConcReqs, entry \in Svcs, body \in {CepBody(CepKnown), CepBody(CepShort)} :
          ClientSend(r, entry, body)
    \/ \E r \in ConcReqs : AHandle(r)
    \/ \E r \in ConcReqs, outcome \in {"doErr", "ok"} : ACallReturn(r, outcome)
    \/ \E r \in ConcReqs : BHandle(r)
    \/ \E r \in ConcReqs, city \in Cities, outcome \in {"erro", "ok"} :
          BCepReturn(r, outcome, city)
    \/ \E r \in ConcReqs, temp \in Temps, fused \in BOOLEAN, outcome \in {"status", "ok"} :
          BWeatherReturn(r, outcome, temp, fused)

SpecConcurrent == InitConcurrent /\ [][NextConcurrent]_vars

\* ------------------------------------------------------- the validators alone

\* Characters of the strings tried: two digits, a letter and a newline.
Alphabet == {"0", "9", "a", "\n"}

\* The strings of n characters.
Strings(n) == [1..n -> Alphabet]

\* Any string up to MaxStrLen characters, not validated yet; nothing else runs.
InitValid ==
    /\ Idle(Reqs)
    /\ serviceBURL = "serviceb"
    /\ \E n \in 0..MaxStrLen : \E str \in Strings(n) : valid = [NoValid EXCEPT !.s = str]

\* Both services validate the string.
Validate ==
    /\ ~valid.done
    /\ valid' = [valid EXCEPT !.done = TRUE, !.a = isValidCep(valid.s),
                                !.b = isValidCepB(valid.s)]
    /\ UNCHANGED <<mainVars, serviceBURL, reqVars>>

NextValid == Validate

SpecValid == InitValid /\ [][NextValid]_vars

\* =================================================================== claims

\* The log of the service that records the steps made at `at`.
LogOf(r, at) == log[r][IF at \in {"A", "serviceb"} THEN "A" ELSE "B"]

\* Positions of that log holding a step `step` recorded at `at`.
EvAt(r, at, step) ==
    LET L == LogOf(r, at) IN {i \in 1..Len(L) : L[i].at = at /\ L[i].step = step}

HasEv(r, at, step) ==
    LET L == LogOf(r, at) IN \E i \in 1..Len(L) : L[i].at = at /\ L[i].step = step

\* The only response a handler wrote, once it wrote exactly one.
Only(resps) == resps[1]

ErrResp(status, message) == <<Response(status, ErrorBody(message))>>

\* The status table the claim C1 states.
C1_Mapped(s) == IF s \in {200, 404, 422} THEN s ELSE 500

\* The status callServiceB received for request r (client.Do returned a response).
C1_Received(r) == log[r]["A"][CHOOSE i \in EvAt(r, "serviceb", "ok") \cup
                                            EvAt(r, "serviceb", "readErr") : TRUE].code

\* C1, as stated: whatever status s the forwarded call received, the Entry
\* Orchestrator answers 404 for 404, 422 for 422, 200 for 200 and 500 for any
\* other s.
C1_StatusMappingAlways ==
    \A r \in Reqs :
        (aPc[r] = "done" /\ (HasEv(r, "serviceb", "ok") \/ HasEv(r, "serviceb", "readErr")))
            => Only(aResp[r]).status = C1_Mapped(C1_Received(r))

\* C1, amended: the table holds when the response body was read to its end; when
\* reading the body fails the answer is 500 whatever the status received.
C1_StatusMapping ==
    \A r \in Reqs :
        /\ (aPc[r] = "done" /\ HasEv(r, "serviceb", "ok"))
              => /\ Len(aResp[r]) = 1
                 /\ Only(aResp[r]).status = C1_Mapped(C1_Received(r))
        /\ (aPc[r] = "done" /\ HasEv(r, "serviceb", "readErr"))
              => aResp[r] = ErrResp(500, MsgInternal)

\* C1 witness: a forwarded call answered 400 and read whole, answered with 500.
C1_Witness ==
    \E r \in Reqs :
        /\ aPc[r] = "done" /\ HasEv(r, "serviceb", "ok")
        /\ C1_Received(r) = 400
        /\ Only(aResp[r]).status = 500

\* The chain of parents of span n of request r reaches span a (at most four
\* steps: there are five spans).
C2_Parent(r, n) == IF n \in SpanNames THEN spans[r][n].parent ELSE "none"

C2_Descends(r, n, a) ==
    \/ C2_Parent(r, n) = a
    \/ C2_Parent(r, C2_Parent(r, n)) = a
    \/ C2_Parent(r, C2_Parent(r, C2_Parent(r, n))) = a
    \/ C2_Parent(r, C2_Parent(r, C2_Parent(r, C2_Parent(r, n)))) = a

\* C2: for a request that entered through the Entry Orchestrator, every span
\* service B started carries the trace id of handle_cep_request and descends
\* from it, and handle_cep_request is the root.
C2_SingleConnectedTrace ==
    \A r \in Reqs :
        (client[r] # NoReq /\ client[r].entry = "A")
            => /\ spans[r]["handle_cep_request"].parent = "none"
               /\ \A n \in {"handle_weather_request", "get_cep_info", "get_weather_info"} :
                     spans[r][n].started > 0
                        => /\ spans[r][n].trace = spans[r]["handle_cep_request"].trace
                           /\ C2_Descends(r, n, "handle_cep_request")

\* The operation that started span n for request r has returned.
C3_Returned(r, n) ==
    CASE n = "handle_cep_request"     -> aPc[r] = "done"
      [] n = "call_service_b"         -> aPc[r] = "done"
      [] n = "handle_weather_request" -> bPc[r] = "done"
      [] n = "get_cep_info"           -> bPc[r] \in {"weather", "done"}
      [] n = "get_weather_info"       -> bPc[r] = "done"

\* C3: a span is started at most once, is open while its operation runs, and
\* has been ended exactly once when the operation has returned, on every path.
C3_SpansEndedOnce ==
    \A r \in Reqs, n \in SpanNames :
        /\ spans[r][n].started <= 1
        /\ spans[r][n].ended = IF C3_Returned(r, n) THEN spans[r][n].started ELSE 0

\* C3 witness: an early-return error path (the locality was not found) with
\* both spans of that path ended once and the span never started left alone.
C3_Witness ==
    \E r \in Reqs :
        /\ bPc[r] = "done" /\ HasEv(r, "B", "getCepInfo.notfound")
        /\ spans[r]["handle_weather_request"].ended = 1
        /\ spans[r]["get_cep_info"].ended = 1
        /\ spans[r]["get_weather_info"].started = 0

\* C4, as stated: when ViaCEP's record has erro set, service B answers 404 and
\* makes no weather call, and the Entry Orchestrator answers 404 too.
C4_NotFoundBothLayersAlways ==
    \A r \in Reqs :
        HasEv(r, "viacep", "erro")
            => /\ bResp[r] = ErrResp(404, MsgNotFound)
               /\ calls[r]["weatherapi"].state = "none"
               /\ aPc[r] = "done" => aResp[r] = ErrResp(404, MsgNotFound)

\* C4, amended: the Entry Orchestrator answers 404 when it received that answer
\* whole, and 500 when the forwarded call failed at the transport level.
C4_NotFoundBothLayers ==
    \A r \in Reqs :
        HasEv(r, "viacep", "erro")
            => /\ bResp[r] = ErrResp(404, MsgNotFound)
               /\ calls[r]["weatherapi"].state = "none"
               /\ ~HasEv(r, "B", "getWeatherInfo")
               /\ (aPc[r] = "done" /\ HasEv(r, "serviceb", "ok"))
                     => aResp[r] = ErrResp(404, MsgNotFound)
               /\ (aPc[r] = "done" /\ ~HasEv(r, "serviceb", "ok"))
                     => aResp[r] = ErrResp(500, MsgInternal)

\* C4 witness: erro set, 404 at service B and 404 at service A.
C4_Witness ==
    \E r \in Reqs :
        /\ HasEv(r, "viacep", "erro")
        /\ bResp[r] = ErrResp(404, MsgNotFound)
        /\ aResp[r] = ErrResp(404, MsgNotFound)

\* A body that does not decode into a string cep, or whose cep is not exactly
\* eight ASCII digits.
C5_Rejected(body) ==
    \/ body.kind # "object"
    \/ Len(body.cep) # 8
    \/ \E i \in 1..Len(body.cep) : body.cep[i] \notin Digits

\* C5: at either orchestrator a handled request whose body does not decode or
\* whose code is invalid is answered 422 "invalid zipcode", and nothing else
\* is done for it.
C5_Invalid422 ==
    \A r \in Reqs :
        /\ (client[r] # NoReq /\ client[r].entry = "A" /\ aPc[r] # "idle"
              /\ C5_Rejected(client[r].body))
              => /\ aPc[r] = "done"
                 /\ aResp[r] = ErrResp(422, MsgInvalid)
        /\ (bReq[r] # NoReq /\ bPc[r] # "idle" /\ C5_Rejected(bReq[r].body))
              => /\ bPc[r] = "done"
                 /\ bResp[r] = ErrResp(422, MsgInvalid)

\* C5 witness: eight digits and a newline posted to /weather, answered 422.
C5_Witness ==
    \E r \in Reqs :
        /\ bReq[r] # NoReq /\ bReq[r].body = CepBody(CepNewline)
        /\ bResp[r] = ErrResp(422, MsgInvalid)

\* A provider call of request r failed: at the transport level, with a status
\* other than 200, or with a payload that does not decode.
C6_ProviderFailed(r) ==
    \/ \E o \in {"doErr", "status", "readErr", "badJson"} : HasEv(r, "viacep", o)
    \/ \E o \in {"doErr", "status", "decodeErr"} : HasEv(r, "weatherapi", o)

\* C6: a failed provider call makes service B answer 500 "internal server
\* error" and the Entry Orchestrator handling the originating request answer
\* 500; a transport failure of the forwarded call itself makes the Entry
\* Orchestrator answer 500.
C6_ProviderFailure500 ==
    \A r \in Reqs :
        /\ C6_ProviderFailed(r)
              => /\ bResp[r] = ErrResp(500, MsgInternal)
                 /\ aPc[r] = "done" => aResp[r] = ErrResp(500, MsgInternal)
        /\ (HasEv(r, "serviceb", "doErr") \/ HasEv(r, "serviceb", "readErr"))
              => aResp[r] = ErrResp(500, MsgInternal)

\* C6 witness: WeatherAPI answered with a status other than 200, service B
\* answered 500, the Entry Orchestrator received that answer and answered 500.
C6_Witness ==
    \E r \in Reqs :
        /\ HasEv(r, "weatherapi", "status")
        /\ bResp[r] = ErrResp(500, MsgInternal)
        /\ HasEv(r, "serviceb", "ok")
        /\ aResp[r] = ErrResp(500, MsgInternal)

\* C7: when the forwarded call received status 200 and read the body b whole,
\* the Entry Orchestrator answers 200 with exactly b; it answers 200 in no
\* other case.
C7_PassThrough ==
    \A r \in Reqs :
        /\ (aPc[r] = "done" /\ HasEv(r, "serviceb", "ok") /\ wire[r].status = 200)
              => aResp[r] = <<Response(200, wire[r].body)>>
        /\ (aResp[r] # <<>> /\ Only(aResp[r]).status = 200)
              => /\ HasEv(r, "serviceb", "ok")
                 /\ Only(aResp[r]) = wire[r]

\* C7 witness: service B answered 200 and the client of service A got the same
\* status, city and temperatures.
C7_Witness ==
    \E r \in Reqs :
        /\ bResp[r] # <<>> /\ Only(bResp[r]).status = 200
        /\ Only(bResp[r]).body.city = CitySP
        /\ aResp[r] = bResp[r]

\* C8: a process that initialised its tracer and has exited has called the
\* tracer provider's Shutdown.
C8_ShutdownBeforeExit ==
    \A svc \in Svcs :
        (mainPc[svc] = "exited" /\ tracerSet[svc]) => tpShutdown[svc] >= 1

\* A step of service B's log that is a failure.
C9_Failure(e) ==
    \/ e.at = "B" /\ e.step \in {"decode.fail", "validate.fail", "getCepInfo.notfound",
                                  "getCepInfo.fail", "getWeatherInfo.fail"}
    \/ e.at = "viacep" /\ e.step # "ok"
    \/ e.at = "weatherapi" /\ e.step # "ok"

C9_Rank(e) ==
    CASE e.at = "viacep" -> 4
      [] e.at = "weatherapi" -> 8
      [] e.step \in {"decode.ok", "decode.fail"} -> 1
      [] e.step \in {"validate.ok", "validate.fail"} -> 2
      [] e.step = "getCepInfo" -> 3
      [] e.step \in {"getCepInfo.ok", "getCepInfo.notfound", "getCepInfo.fail"} -> 5
      [] e.step = "getWeatherInfo" -> 6
      [] e.step = "weatherapi.q" -> 7
      [] e.step \in {"getWeatherInfo.ok", "getWeatherInfo.fail"} -> 9
      [] e.step = "convert" -> 10
      [] e.step = "respond" -> 11

\* C9: service B's steps come in the order decode, validate, getCepInfo,
\* getWeatherInfo, convert, respond; getCepInfo is called with a code that
\* decoded and is valid, getWeatherInfo with the locality ViaCEP returned, and
\* after a failure the only steps left are those that report it: no further
\* call is started and the answer is not 200.
C9_TerminalOrdered ==
    \A r \in Reqs :
        LET L == log[r]["B"] IN
        \A i \in 1..Len(L) :
            /\ i > 1 => C9_Rank(L[i - 1]) < C9_Rank(L[i])
            /\ L[i].step = "getCepInfo"
                  => /\ \E j \in 1..(i - 1) : L[j] = Ev("B", "validate.ok", L[i].arg, 0)
                     /\ \E j \in 1..(i - 1) : L[j] = Ev("B", "decode.ok", L[i].arg, 0)
                     /\ ~C5_Rejected(CepBody(L[i].arg))
            /\ L[i].step = "getWeatherInfo"
                  => \E j \in 1..(i - 1) : L[j] = Ev("viacep", "ok", L[i].arg, 0)
            /\ (i > 1 /\ C9_Failure(L[i - 1]))
                  => \/ C9_Failure(L[i])
                     \/ L[i].step = "respond" /\ L[i].code # 200

\* C9 witness: the whole chain ran in order and answered 200.
C9_Witness ==
    \E r \in Reqs :
        /\ HasEv(r, "B", "convert")
        /\ HasEv(r, "B", "getWeatherInfo")
        /\ bResp[r] # <<>> /\ Only(bResp[r]).status = 200

\* The handler of request r that starts calls to target t is running.
C10_HandlerRunning(r, t) ==
    IF TargetSvc(t) = "A" THEN aPc[r] = "calling" ELSE bPc[r] \in {"cep", "weather"}

\* C10: a call whose originating request was cancelled while it was in flight
\* comes back with an error, and a call is in flight only while the handler of
\* its originating request is blocked in it.
C10_BoundToRequest ==
    \A r \in Reqs, t \in Targets :
        /\ calls[r][t].hit => calls[r][t].state \in {"inflight", "err"}
        /\ calls[r][t].state = "inflight" => C10_HandlerRunning(r, t)
        /\ calls[r][t].state # "none" => calls[r][t].ctx.owner = TargetSvc(t)

\* C10 witness: the weather call was cancelled in flight and came back with an
\* error.
C10_Witness ==
    \E r \in Reqs :
        /\ calls[r]["weatherapi"].hit
        /\ calls[r]["weatherapi"].state = "err"
        /\ bPc[r] = "done"

\* The three answers a failure may get: the status and the JSON object with the
\* single member message.
C11_ErrorEnvelopes ==
    {Response(422, ErrorBody(MsgInvalid)), Response(404, ErrorBody(MsgNotFound)),
     Response(500, ErrorBody(MsgInternal))}

\* C11: every response of either handler whose status is not 200 is one of the
\* three fixed pairs of status and {"message": ...}; nothing of the error that
\* caused it is in the body.
C11_FixedErrorEnvelope ==
    \A r \in Reqs :
        /\ \A i \in 1..Len(aResp[r]) :
              aResp[r][i].status # 200 => aResp[r][i] \in C11_ErrorEnvelopes
        /\ \A i \in 1..Len(bResp[r]) :
              bResp[r][i].status # 200 => bResp[r][i] \in C11_ErrorEnvelopes

\* C11 witness: the forwarded call was answered 503 by the endpoint and the
\* client got 500 with the fixed message.
C11_Witness ==
    \E r \in Reqs :
        /\ HasEv(r, "serviceb", "ok") /\ wire[r].status = 503
        /\ aResp[r] = ErrResp(500, MsgInternal)

\* C12: isValidCep returns true exactly for the strings of length 8 whose
\* characters are all ASCII digits, and the two services' validators agree.
C12_ValidIffEightDigits ==
    valid.done =>
        /\ valid.a = (Len(valid.s) = 8 /\ \A i \in 1..Len(valid.s) : valid.s[i] \in Digits)
        /\ valid.b = valid.a

\* C12 witness: eight digits followed by a newline, rejected by both.
C12_Witness ==
    /\ valid.done /\ Len(valid.s) = 9 /\ valid.s[9] = "\n"
    /\ \A i \in 1..8 : valid.s[i] \in Digits
    /\ ~valid.a /\ ~valid.b

\* The float64 nearest to the real number c*1.8 + 32, which is (9c + 160)/5.
C13_Fahrenheit(c) ==
    LET n == Sum(BigMul(Bits(c), FromNat(9)), c.e, FromNat(160), 0)
    IN RoundRatio(n.m, 5, n.e)

\* The float64 nearest to the real number c + 273.
C13_Kelvin(c) == LET n == Sum(Bits(c), c.e, FromNat(273), 0) IN Round(n.m, n.e)

\* What the claim expects for each temperature.
C13_Expected == [c \in Temps |-> [f |-> C13_Fahrenheit(c), k |-> C13_Kelvin(c)]]

\* C13: in every 200 response service B builds, temp_C is the temperature the
\* weather provider returned, temp_F is temp_C*1.8 + 32 and temp_K is
\* temp_C + 273, city is the locality the postal-code provider returned, and for
\* temp_C = 28.5 the response carries temp_F = 83.3 and temp_K = 301.5.
C13_ConversionExact ==
    \A r \in Reqs : \A i \in 1..Len(bResp[r]) :
        bResp[r][i].status = StatusOK =>
            LET b == bResp[r][i].body
                c == locals[r]["B"].tempC
            IN /\ b.temp_C = c
               /\ b.temp_F = C13_Expected[c].f
               /\ b.temp_K = C13_Expected[c].k
               /\ \E j \in 1..Len(log[r]["B"]) :
                     /\ log[r]["B"][j].at = "viacep" /\ log[r]["B"][j].step = "ok"
                     /\ log[r]["B"][j].arg = b.city
               /\ c = F64Parse(285, 10) =>
                     /\ b.temp_F = F64Parse(833, 10)
                     /\ b.temp_K = F64Parse(3015, 10)

\* The reply of r's own outbound call to `at`, as its handler logged it.
C14_Reply(r, at) ==
    LET L == LogOf(r, at) IN L[CHOOSE i \in 1..Len(L) : L[i].at = at]

\* The responses handleWeatherRequest may give to request r, from r's own body
\* and the replies to r's own calls.
C14_ExpectB(r) ==
    LET d == Decode(bReq[r].body) IN
    IF ~d.ok \/ ~isValidCepB(d.cep) THEN {Response(422, ErrorBody(MsgInvalid))}
    ELSE IF C14_Reply(r, "viacep").step = "erro"
    THEN {Response(404, ErrorBody(MsgNotFound))}
    ELSE IF C14_Reply(r, "viacep").step # "ok" \/ C14_Reply(r, "weatherapi").step # "ok"
    THEN {Response(500, ErrorBody(MsgInternal))}
    ELSE {Response(200, WeatherResult(C14_Reply(r, "viacep").arg,
                                      locals[r]["B"].tempC, fused)) : fused \in BOOLEAN}

\* The response handleCepRequest gives to request r, from r's own body and the
\* reply to r's own call.
C14_ExpectA(r) ==
    LET d == Decode(client[r].body) IN
    IF ~d.ok \/ ~isValidCep(d.cep) THEN Response(422, ErrorBody(MsgInvalid))
    ELSE LET reply == C14_Reply(r, "serviceb") IN
         IF reply.step = "ok" /\ reply.code = 200 THEN Response(200, wire[r].body)
         ELSE IF reply.step = "ok" /\ reply.code = 404
         THEN Response(404, ErrorBody(MsgNotFound))
         ELSE IF reply.step = "ok" /\ reply.code = 422
         THEN Response(422, ErrorBody(MsgInvalid))
         ELSE Response(500, ErrorBody(MsgInternal))

C14_Determined ==
    \A r \in DOMAIN client :
        /\ aPc[r] = "done" => aResp[r] = <<C14_ExpectA(r)>>
        /\ bPc[r] = "done" => Len(bResp[r]) = 1 /\ bResp[r][1] \in C14_ExpectB(r)

\* Everything kept for request r.
C14_Own(r) ==
    <<client[r], aPc[r], bPc[r], bReq[r], wire[r], aResp[r], bResp[r], spans[r],
      calls[r], cancelled[r], locals[r], log[r]>>

\* C14: concurrent requests do not interfere.  Every step of a handler leaves
\* the tracer and the downstream URL alone and changes what is kept for one
\* request only, and every response is the one that request's own body and the
\* replies to its own outbound calls determine.
C14_NoInterference ==
    [][/\ (aPc' # aPc \/ bPc' # bPc) =>
              /\ tracerSet' = tracerSet /\ serviceBURL' = serviceBURL
              /\ Cardinality({q \in DOMAIN client : C14_Own(q)' # C14_Own(q)}) <= 1
       /\ C14_Determined']_vars

\* C14 witness: request 1 came through service A and is waiting for WeatherAPI
\* in service B, with its locality, when request 2, which arrived later and got
\* another locality, has its 200 from service B.
C14_Witness ==
    /\ 2 \in DOMAIN client
    /\ aPc[1] = "calling" /\ bPc[1] = "weather" /\ locals[1]["B"].city = CityRio
    /\ bPc[2] = "done" /\ bResp[2] # <<>>
    /\ bResp[2][1] \in C14_ExpectB(2)
    /\ bResp[2][1].status = StatusOK /\ bResp[2][1].body.city = CitySP

\* The span a handler of service svc starts for the request.
C15_HandlerSpan(svc) == IF svc = "A" THEN "handle_cep_request" ELSE "handle_weather_request"

C15_Resp(r, svc) == IF svc = "A" THEN aResp[r] ELSE bResp[r]

\* C15: on every failure path of either handler, its request-handling span
\* carries one "error_response" event whose status-code attribute is the status
\* written in the response; the event was added while the span was recording
\* and before anything was written.
C15_ErrorEventBeforeWrite ==
    \A r \in Reqs, svc \in Svcs :
        LET resp == C15_Resp(r, svc) IN
        (resp # <<>> /\ resp[1].status # StatusOK) =>
            LET span == spans[r][C15_HandlerSpan(svc)] IN
            /\ span.events = <<[name |-> "error_response", code |-> resp[1].status,
                                written |-> 0]>>
            /\ span.t0 > 0 /\ span.t1 > span.t0

\* C15 witness: service A answered 404 after service B did, each with its event.
C15_Witness ==
    \E r \in Reqs :
        /\ aResp[r] = ErrResp(404, MsgNotFound) /\ bResp[r] = ErrResp(404, MsgNotFound)
        /\ Len(spans[r]["handle_cep_request"].events) = 1
        /\ Len(spans[r]["handle_weather_request"].events) = 1

\* C16: every request service A sends to service B carries a JSON object whose
\* cep is exactly 8 ASCII digits; service B never answers 422 to it, and with
\* service A wired to service B callServiceB never receives a 422.
C16_OnlyValidatedForwarded ==
    \A r \in Reqs :
        /\ (bReq[r] # NoReq /\ bReq[r].from = "A") =>
              /\ bReq[r].body.kind = "object"
              /\ Len(bReq[r].body.cep) = 8
              /\ \A i \in 1..Len(bReq[r].body.cep) : bReq[r].body.cep[i] \in Digits
              /\ \A i \in 1..Len(bResp[r]) : bResp[r][i].status # StatusUnprocessableEntity
        /\ serviceBURL = "serviceb" => wire[r].status # StatusUnprocessableEntity

\* C16 witness: service B has answered a request that service A forwarded.
C16_Witness ==
    \E r \in Reqs :
        /\ bReq[r] # NoReq /\ bReq[r].from = "A" /\ bReq[r].body = CepBody(CepKnown)
        /\ bPc[r] = "done" /\ wire[r] = bResp[r][1]
        /\ aPc[r] = "done" /\ HasEv(r, "serviceb", "ok")

\* C17: each invocation of either handler writes exactly one response: none
\* while the handler runs or has not started, one once it has returned, on
\* every path.
C17_ExactlyOneResponse ==
    \A r \in Reqs :
        /\ Len(aResp[r]) = IF aPc[r] = "done" THEN 1 ELSE 0
        /\ Len(bResp[r]) = IF bPc[r] = "done" THEN 1 ELSE 0

\* C17 witness: both handlers returned for one request, service A on the path
\* of the not-found error of callServiceB.
C17_Witness ==
    \E r \in Reqs :
        /\ aPc[r] = "done" /\ bPc[r] = "done"
        /\ HasEv(r, "A", "callServiceB.fail")
        /\ Len(aResp[r]) = 1 /\ aResp[r][1].status = StatusNotFound
        /\ Len(bResp[r]) = 1

\* The span each child span is started under.
C18_ParentOf(n) ==
    IF n = "call_service_b" THEN "handle_cep_request" ELSE "handle_weather_request"

C18_Children == {"call_service_b", "get_cep_info", "get_weather_info"}

\* C18: within one service the spans of a request are nested in time.  A child
\* span is started under its handler's span and after it, and is ended before
\* the handler's span is; get_cep_info is ended before get_weather_info is
\* started, so at most one child span is open at a time.
C18_SpansNestedInTime ==
    \A r \in Reqs :
        /\ \A n \in C18_Children :
              LET child  == spans[r][n]
                  parent == spans[r][C18_ParentOf(n)]
              IN child.started > 0 =>
                    /\ child.parent = C18_ParentOf(n)
                    /\ parent.started > 0 /\ parent.t0 < child.t0
                    /\ child.ended > 0 => child.t0 < child.t1
                    /\ parent.ended > 0 => child.ended > 0 /\ child.t1 < parent.t1
        /\ spans[r]["get_weather_info"].started > 0 =>
              /\ spans[r]["get_cep_info"].ended > 0
              /\ spans[r]["get_cep_info"].t1 < spans[r]["get_weather_info"].t0
        /\ Cardinality({n \in C18_Children :
                           SpanSvc(n) = "B" /\ spans[r][n].started > spans[r][n].ended}) <= 1

\* C18 witness: service B ran both calls and returned, all three spans ended.
C18_Witness ==
    \E r \in Reqs :
        /\ bPc[r] = "done" /\ spans[r]["handle_weather_request"].ended = 1
        /\ spans[r]["get_cep_info"].ended = 1 /\ spans[r]["get_weather_info"].ended = 1
        /\ spans[r]["get_weather_info"].t1 < spans[r]["handle_weather_request"].t1
        /\ spans[r]["get_cep_info"].t1 < spans[r]["get_weather_info"].t0

\* The forwarded call of request r came back whole with status 200.
C19_SuccessA(r) ==
    /\ HasEv(r, "A", "validate.ok")
    /\ HasEv(r, "serviceb", "ok") /\ C1_Received(r) = StatusOK
    /\ serviceBURL = "serviceb" => (bResp[r] # <<>> /\ bResp[r][1].status = StatusOK)

\* The code of request r was valid, ViaCEP answered with a locality and no
\* not-found flag, and WeatherAPI answered with a reading.
C19_SuccessB(r) ==
    /\ Decode(bReq[r].body).ok /\ isValidCepB(Decode(bReq[r].body).cep)
    /\ HasEv(r, "viacep", "ok")
    /\ HasEv(r, "weatherapi", "ok")

\* C19: a handler that has answered answered 200 exactly when the whole chain
\* below it succeeded, and 422, 404 or 500 in every other execution.
C19_OkOnlyOnSuccess ==
    \A r \in Reqs :
        /\ aPc[r] = "done" =>
              /\ aResp[r] # <<>>
              /\ aResp[r][1].status = StatusOK <=> C19_SuccessA(r)
              /\ aResp[r][1].status \in {200, 422, 404, 500}
        /\ bPc[r] = "done" =>
              /\ bResp[r] # <<>>
              /\ bResp[r][1].status = StatusOK <=> C19_SuccessB(r)
              /\ bResp[r][1].status \in {200, 422, 404, 500}

\* C19 witness: the whole chain succeeded and both services answered 200.
C19_Witness ==
    \E r \in Reqs :
        /\ aPc[r] = "done" /\ bPc[r] = "done" /\ bReq[r].from = "A"
        /\ C19_SuccessA(r) /\ C19_SuccessB(r)
        /\ aResp[r][1].status = StatusOK /\ bResp[r][1].status = StatusOK
====
